---- MODULE Spec2Model ----
(***************************************************************************)
(* Model of the batch loader of uf_database: import_data.py (the stages    *)
(* and the two orchestrators), models.py (the schema the storage engine    *)
(* enforces), database_setup.py (the session factory) and main.py (the     *)
(* driver).                                                                *)
(*                                                                         *)
(* Text is a tuple of one-character strings, so that strip and the UTF-8   *)
(* round trip of safe_string are computed, not assumed.  The absent cell   *)
(* (None) is the one-element tuple Null, which no text equals.             *)
(***************************************************************************)
EXTENDS Integers, Sequences, FiniteSets, TLC

(***************************************************************************)
(* Bounds of the model.                                                    *)
(***************************************************************************)
\* Longest Institutions file and longest Metadata file, in rows.
MaxMetaRows == 2
\* Longest Enrollments file, in rows.
MaxInscRows == 4
\* The commit period of _import_inscriptions (500 in the source), scaled
\* down so that a file of MaxInscRows rows crosses a commit boundary.
CommitEvery == 3

(***************************************************************************)
(* Text values.                                                            *)
(***************************************************************************)
Null == <<"NULL">>

Whitespace == {" ", "\t", "\n"}

\* A lone surrogate: the one character str.encode('utf-8') cannot encode.
Unencodable == {"\\ud800"}

Repeat(c, n) == [k \in 1..n |-> c]

\* Code-point order of the characters the model uses.
Chars == <<"\t", "\n", " ", "-", "0", "1", "2", "3", "9", "F", "L", "M", "N",
           "U", "d", "e", "i", "m", "n", "o", "p", "u", "x", "\\ud800">>

CharRank(c) == CHOOSE k \in 1..Len(Chars) : Chars[k] = c

RECURSIVE LexLess(_, _)
LexLess(a, b) ==
    IF b = <<>> THEN FALSE
    ELSE IF a = <<>> THEN TRUE
    ELSE IF Head(a) = Head(b) THEN LexLess(Tail(a), Tail(b))
    ELSE CharRank(Head(a)) < CharRank(Head(b))

(***************************************************************************)
(* Normalizer: safe_string.                                                *)
(***************************************************************************)
RECURSIVE LStrip(_)
LStrip(s) ==
    IF s # <<>> /\ Head(s) \in Whitespace THEN LStrip(Tail(s)) ELSE s

RECURSIVE RStrip(_)
RStrip(s) ==
    IF s # <<>> /\ s[Len(s)] \in Whitespace
    THEN RStrip(SubSeq(s, 1, Len(s) - 1))
    ELSE s

Strip(s) == RStrip(LStrip(s))

IsEncodable(c) == c \notin Unencodable

\* s.encode('utf-8', errors='ignore').decode('utf-8')
EncodeIgnore(s) == SelectSeq(s, IsEncodable)

safe_string(s) == IF s = Null THEN s ELSE EncodeIgnore(Strip(s))

\* Series.astype(str): None becomes the text "None".
astype_str(v) == IF v = Null THEN <<"N", "o", "n", "e">> ELSE v

(***************************************************************************)
(* Cells of the columns the code converts with int(): what pandas hands    *)
(* over is nothing (NaN, None after the loader's where), a number (whole   *)
(* part and tenths, never negative here) or a text.                        *)
(***************************************************************************)
Absent == [kind |-> "nan", whole |-> 0, tenths |-> 0, text |-> <<>>]

Number(w, t) == [kind |-> "num", whole |-> w, tenths |-> t, text |-> <<>>]

Text(str) == [kind |-> "str", whole |-> 0, tenths |-> 0, text |-> str]

Digits == <<"0", "1", "2", "3", "4", "5", "6", "7", "8", "9">>

IsDigit(c) == \E d \in 1..Len(Digits) : Digits[d] = c

DigitOf(c) == (CHOOSE d \in 1..Len(Digits) : Digits[d] = c) - 1

RECURSIVE DecimalValue(_, _)
DecimalValue(str, acc) ==
    IF str = <<>> THEN acc
    ELSE DecimalValue(Tail(str), acc * Len(Digits) + DigitOf(Head(str)))

\* A text int() accepts: decimal digits, surrounding whitespace allowed.
IsIntegerLiteral(str) ==
    LET t == Strip(str) IN t # <<>> /\ \A k \in 1..Len(t) : IsDigit(t[k])

\* A value of an Integer column: NULL or an integer.
NullInt == [isnull |-> TRUE, n |-> 0]

IntVal(n) == [isnull |-> FALSE, n |-> n]

\* int(x): a float is truncated, a text is parsed, anything else in a text
\* is a ValueError.
IntRaises(cell) == cell.kind = "str" /\ ~IsIntegerLiteral(cell.text)

int(cell) ==
    IF cell.kind = "num" THEN IntVal(cell.whole)
    ELSE IntVal(DecimalValue(Strip(cell.text), 0))

\* int(x) if pd.notna(x) and x is not None else None
IntOrNoneRaises(cell) == cell.kind # "nan" /\ IntRaises(cell)

IntOrNone(cell) == IF cell.kind = "nan" \/ IntRaises(cell) THEN NullInt ELSE int(cell)

(***************************************************************************)
(* Data frames: a sequence of rows, each with its index label `idx` (the   *)
(* 0-based position in the file, kept through drop_duplicates and dropna)  *)
(* and its cells `c`.                                                      *)
(***************************************************************************)
read_excel(rows) == [k \in 1..Len(rows) |-> [idx |-> k - 1, c |-> rows[k]]]

RECURSIVE TakeIdx(_, _, _)
TakeIdx(df, keep, k) ==
    IF k > Len(df) THEN <<>>
    ELSE (IF k \in keep THEN <<df[k]>> ELSE <<>>) \o TakeIdx(df, keep, k + 1)

\* DataFrame.drop_duplicates(subset=cols), keep='first'.
drop_duplicates(df, cols) ==
    TakeIdx(df,
            {k \in 1..Len(df) :
                \A j \in 1..(k - 1) : \E col \in cols : df[j].c[col] # df[k].c[col]},
            1)

\* DataFrame.dropna(subset=cols).
dropna(df, cols) ==
    TakeIdx(df, {k \in 1..Len(df) : \A col \in cols : df[k].c[col] # Null}, 1)

\* df[col] = df[col].astype(str).apply(safe_string), for each col of cols.
CleanKeys(df, cols) ==
    [k \in 1..Len(df) |->
        [df[k] EXCEPT !.c = [col \in DOMAIN df[k].c |->
            IF col \in cols THEN safe_string(astype_str(df[k].c[col]))
            ELSE df[k].c[col]]]]

(***************************************************************************)
(* Schema (models.py): per table its primary key, its columns in           *)
(* declaration order, the declared VARCHAR widths, the NOT NULL columns,   *)
(* the UNIQUE constraints and the foreign keys.  Of Etudiant's seventeen   *)
(* columns the model keeps the key, nom and sexe; the Text and Integer     *)
(* columns, which no stage of import_data.py can make fail, are left out.  *)
(***************************************************************************)
Schema ==
    [institutions |->
        [pk |-> "id_institution",
         cols |-> <<"id_institution", "nom", "type_institution">>,
         width |-> [id_institution |-> 32, nom |-> 255, type_institution |-> 10],
         notnull |-> {"nom", "type_institution"},
         unique |-> {{"nom"}},
         fk |-> {}],
     composantes |->
        [pk |-> "code",
         cols |-> <<"code", "label", "id_institution">>,
         width |-> [code |-> 10, label |-> 100, id_institution |-> 32],
         notnull |-> {},
         unique |-> {},
         fk |-> {[col |-> "id_institution", ref |-> "institutions"]}],
     domaines |->
        [pk |-> "code",
         cols |-> <<"code", "label">>,
         width |-> [code |-> 10, label |-> 100],
         notnull |-> {},
         unique |-> {},
         fk |-> {}],
     mentions |->
        [pk |-> "id_mention",
         cols |-> <<"id_mention", "code_mention", "label", "composante_code",
                    "domaine_code">>,
         width |-> [id_mention |-> 50, code_mention |-> 20, label |-> 100,
                    composante_code |-> 10, domaine_code |-> 10],
         notnull |-> {},
         unique |-> {},
         fk |-> {[col |-> "composante_code", ref |-> "composantes"],
                 [col |-> "domaine_code", ref |-> "domaines"]}],
     parcours |->
        [pk |-> "id_parcours",
         cols |-> <<"id_parcours", "code_parcours", "label", "mention_id">>,
         width |-> [id_parcours |-> 50, code_parcours |-> 20, label |-> 100,
                    mention_id |-> 50],
         notnull |-> {},
         unique |-> {},
         fk |-> {[col |-> "mention_id", ref |-> "mentions"]}],
     annees_universitaires |->
        [pk |-> "annee",
         cols |-> <<"annee">>,
         width |-> [annee |-> 9],
         notnull |-> {},
         unique |-> {},
         fk |-> {}],
     etudiants |->
        [pk |-> "code_etudiant",
         cols |-> <<"code_etudiant", "nom", "sexe">>,
         width |-> [code_etudiant |-> 50, nom |-> 100, sexe |-> 20],
         notnull |-> {},
         unique |-> {},
         fk |-> {}],
     inscriptions |->
        [pk |-> "code_inscription",
         cols |-> <<"code_inscription", "code_etudiant", "annee_universitaire",
                    "id_parcours", "niveau", "formation">>,
         width |-> [code_inscription |-> 50, code_etudiant |-> 50,
                    annee_universitaire |-> 9, id_parcours |-> 50,
                    niveau |-> 20, formation |-> 20],
         notnull |-> {},
         unique |-> {{"code_etudiant", "annee_universitaire", "id_parcours",
                      "niveau"}},
         fk |-> {[col |-> "code_etudiant", ref |-> "etudiants"],
                 [col |-> "annee_universitaire", ref |-> "annees_universitaires"],
                 [col |-> "id_parcours", ref |-> "parcours"]}]]

Tables == DOMAIN Schema

\* The order in which a flush writes the tables: parents before children.
TableOrder == <<"institutions", "composantes", "domaines", "mentions", "parcours",
                "annees_universitaires", "etudiants", "inscriptions">>

PkOf(e) == e.v[Schema[e.tbl].pk]

EmptyDb == [t \in Tables |-> <<>>]

Put(table, key, row) ==
    [k \in DOMAIN table \cup {key} |-> IF k = key THEN row ELSE table[k]]

(***************************************************************************)
(* The storage engine's checks of one statement, in the order PostgreSQL   *)
(* applies them to a row: value length, NOT NULL, primary key and UNIQUE,  *)
(* then the foreign keys.  An error carries the exception class            *)
(* SQLAlchemy raises and the text of e.orig that import_data.py tests.     *)
(***************************************************************************)
NoError == [cls |-> "none", text |-> "", width |-> 0]

Truncation(w) ==
    [cls |-> "DataError", text |-> "value too long for type character varying",
     width |-> w]

NotNullViolation ==
    [cls |-> "IntegrityError", text |-> "violates not-null constraint", width |-> 0]

UniqueViolation ==
    [cls |-> "IntegrityError", text |-> "violates unique constraint", width |-> 0]

ForeignKeyViolation ==
    [cls |-> "IntegrityError", text |-> "violates foreign key constraint", width |-> 0]

TooLong(e, col) == e.v[col] # Null /\ Len(e.v[col]) > Schema[e.tbl].width[col]

\* The first over-long column, in declaration order.
FirstTooLong(e) ==
    LET cols == Schema[e.tbl].cols
        k == CHOOSE j \in 1..Len(cols) :
                /\ TooLong(e, cols[j])
                /\ \A h \in 1..(j - 1) : ~TooLong(e, cols[h])
    IN cols[k]

HasTooLong(e) == \E col \in DOMAIN Schema[e.tbl].width : TooLong(e, col)

HasNull(e) ==
    \/ PkOf(e) = Null
    \/ \E col \in Schema[e.tbl].notnull : e.v[col] = Null

\* NULLs never collide in a UNIQUE constraint.
UniqueClash(cur, e) ==
    \E u \in Schema[e.tbl].unique :
        /\ \A col \in u : e.v[col] # Null
        /\ \E k \in DOMAIN cur[e.tbl] :
              /\ k # PkOf(e)
              /\ \A col \in u : cur[e.tbl][k][col] = e.v[col]

MutNoForeignKeyCheck(cur, e) == FALSE

ForeignKeyMissing(cur, e) ==
    \E f \in Schema[e.tbl].fk :
        /\ e.v[f.col] # Null
        /\ e.v[f.col] \notin DOMAIN cur[f.ref]

MutNoConstraintCheck(cur, st) == NoError

StmtError(cur, st) ==
    LET e == st.e IN
    IF HasTooLong(e) THEN Truncation(Schema[e.tbl].width[FirstTooLong(e)])
    ELSE IF HasNull(e) THEN NotNullViolation
    ELSE IF st.op = "insert" /\ PkOf(e) \in DOMAIN cur[e.tbl] THEN UniqueViolation
    ELSE IF UniqueClash(cur, e) THEN UniqueViolation
    ELSE IF ForeignKeyMissing(cur, e) THEN ForeignKeyViolation
    ELSE NoError

(***************************************************************************)
(* The session (database_setup.py: autocommit=False, autoflush=False).     *)
(* Session.merge looks the key up among the persistent rows: found, the    *)
(* row becomes dirty with the given values; not found, a new pending       *)
(* object is added, also when an object with that key is already pending,  *)
(* since nothing is flushed before commit.  commit flushes: per table in   *)
(* TableOrder the UPDATEs of the dirty rows in primary-key order, then the *)
(* INSERTs of the pending objects in the order they were added.            *)
(***************************************************************************)
SameRow(a, b) == a.tbl = b.tbl /\ PkOf(a) = PkOf(b)

IsPersistent(store, e) == PkOf(e) \in DOMAIN store[e.tbl]

MergeNews(store, pend, e) ==
    IF IsPersistent(store, e) THEN pend ELSE Append(pend, e)

MergeDirty(store, dty, e) ==
    IF IsPersistent(store, e)
    THEN {d \in dty : ~SameRow(d, e)} \cup {e}
    ELSE dty

RECURSIVE SortByPk(_)
SortByPk(S) ==
    IF S = {} THEN <<>>
    ELSE LET m == CHOOSE x \in S :
                      \A y \in S : x = y \/ LexLess(PkOf(x), PkOf(y))
         IN <<[op |-> "update", e |-> m]>> \o SortByPk(S \ {m})

RECURSIVE Inserts(_, _, _)
Inserts(pend, t, k) ==
    IF k > Len(pend) THEN <<>>
    ELSE (IF pend[k].tbl = t THEN <<[op |-> "insert", e |-> pend[k]]>> ELSE <<>>)
         \o Inserts(pend, t, k + 1)

\* An UPDATE is emitted only for a row whose values changed.
Updates(store, dty, t) ==
    SortByPk({d \in dty : d.tbl = t /\ store[t][PkOf(d)] # d.v})

RECURSIVE Statements(_, _, _, _)
Statements(store, pend, dty, k) ==
    IF k > Len(TableOrder) THEN <<>>
    ELSE Updates(store, dty, TableOrder[k]) \o Inserts(pend, TableOrder[k], 1)
         \o Statements(store, pend, dty, k + 1)

Apply(cur, st) ==
    [cur EXCEPT ![st.e.tbl] = Put(cur[st.e.tbl], PkOf(st.e), st.e.v)]

\* The flush from statement k on.  With `batch` the INSERTs of one table go
\* in one multi-row statement, whose foreign keys are checked when the
\* statement ends; without it every row is a statement of its own.
RECURSIVE FlushFrom(_, _, _, _, _)
FlushFrom(cur, stmts, k, deferred, batch) ==
    LET groupEnds == \/ k > Len(stmts)
                     \/ stmts[k].op = "update"
                     \/ (k > 1 /\ stmts[k].e.tbl # stmts[k - 1].e.tbl)
    IN
    IF deferred # NoError /\ groupEnds THEN [err |-> deferred, db |-> cur]
    ELSE IF k > Len(stmts) THEN [err |-> NoError, db |-> cur]
    ELSE LET err == StmtError(cur, stmts[k]) IN
         IF err = NoError
         THEN FlushFrom(Apply(cur, stmts[k]), stmts, k + 1, deferred, batch)
         ELSE IF batch /\ stmts[k].op = "insert" /\ err = ForeignKeyViolation
         THEN FlushFrom(Apply(cur, stmts[k]), stmts, k + 1,
                        IF deferred = NoError THEN err ELSE deferred, batch)
         ELSE [err |-> err, db |-> cur]

MutCommitKeepsFlushed(store, pend, dty) ==
    {FlushFrom(store, Statements(store, pend, dty, 1), 1, NoError, batch) :
        batch \in BOOLEAN}

MutRollbackEmptiesStorage(store, pend, dty) ==
    {LET r == FlushFrom(store, Statements(store, pend, dty, 1), 1, NoError, batch)
     IN  IF r.err = NoError THEN r ELSE [err |-> r.err, db |-> EmptyDb] :
        batch \in BOOLEAN}

\* The outcomes of session.commit(): [err, db].  On an error nothing of the
\* transaction is kept.
Commit(store, pend, dty) ==
    {LET r == FlushFrom(store, Statements(store, pend, dty, 1), 1, NoError, batch)
     IN  IF r.err = NoError THEN r ELSE [err |-> r.err, db |-> store] :
        batch \in BOOLEAN}

(***************************************************************************)
(* The three source files and the cells the model draws them from.         *)
(***************************************************************************)
U1 == <<"U", "1">>
U2 == <<"U", "2">>
N1 == <<"n", "1">>
N2 == <<"n", "2">>
F1 == <<"F", "1">>
D1 == <<"d", "1">>
M1 == <<"m", "1">>
P1 == <<"p", "1">>
P9 == <<"p", "9">>
Y1 == <<"2", "3", "-", "2", "3">>
E1 == <<"e", "1">>
E2 == <<"e", "2">>
E3 == <<"e", "3">>
E1Padded == <<" ", "e", "1">>
I1 == <<"i", "1">>
I2 == <<"i", "2">>
I3 == <<"i", "3">>
L1 == <<"L", "1">>
L2 == <<"L", "2">>
SexeM == <<"M">>
SexeF == <<"F">>
\* One character more than VARCHAR(20) holds.
SexeTooLong == Repeat("x", Schema.etudiants.width.sexe + 1)
\* One character more than annees_universitaires.annee holds.
AnneeTooLong == Repeat("9", Schema.annees_universitaires.width.annee + 1)
\* One character more than parcours.id_parcours holds.
ParcoursTooLong == Repeat("p", Schema.parcours.width.id_parcours + 1)

SeqsUpTo(S, n) == UNION {[1..k -> S] : k \in 0..n}

\* A source file: whether pd.read_excel can read it, the columns its sheet
\* lacks, and its rows.
Unreadable == [readable |-> FALSE, missing |-> {}, rows |-> <<>>]

Sheet(lacking, r) == [readable |-> TRUE, missing |-> lacking, rows |-> r]

FilesOf(RowSet, n) ==
    {Unreadable} \cup {Sheet({}, r) : r \in SeqsUpTo(RowSet, n)}

InstRow(id, nom) ==
    [institution_id |-> id, institution_nom |-> nom, institution_type |-> <<"p">>]

InstRows == {InstRow(U1, N1), InstRow(U2, N1), InstRow(U2, N2)}

MetaRow(inst, parc) ==
    [composante |-> F1, label_composante |-> <<"F">>, institution_id |-> inst,
     domaine |-> D1, label_domaine |-> <<"d">>,
     mention |-> <<"m">>, label_mention |-> <<"m">>, id_mention |-> M1,
     id_parcours |-> parc, parcours |-> <<"p">>, label_parcours |-> <<"p">>,
     date_creation |-> Number(2020, 0)]

\* Metadata rows: a row of the first institution, the same row under a
\* second institution, a row with no id_parcours cell and a row with no
\* institution_id cell.
MetaRows == {MetaRow(U1, P1), MetaRow(U2, P1), MetaRow(U1, Null), MetaRow(Null, P1)}

InscRow(ci, ce, an, parc, niv, sx) ==
    [code_inscription |-> ci, code_etudiant |-> ce, annee_universitaire |-> an,
     id_parcours |-> parc, niveau |-> niv, formation |-> Null,
     nom |-> <<"n">>, sexe |-> sx, bacc_annee |-> Number(2019, 0)]

\* Enrollment rows: a valid row of the first student, the same context
\* under a second code, the first student's code with a leading blank (and
\* another sexe and level), a second student whose sexe is too long for
\* etudiants.sexe, a valid row of a third student, and a row whose parcours
\* is not in the metadata.
InscRows ==
    {InscRow(I1, E1, Y1, P1, L1, SexeM),
     InscRow(I2, E1, Y1, P1, L1, SexeM),
     InscRow(I2, E1Padded, Y1, P1, L2, SexeF),
     InscRow(I2, E2, Y1, P1, L1, SexeTooLong),
     InscRow(I3, E3, Y1, P1, L1, SexeM),
     InscRow(I3, E1, Y1, P9, L1, SexeM)}

\* Enrollment rows of a file with gaps: the baseline row, and the same row
\* with no niveau cell.
SparseRows ==
    {InscRow(I1, E1, Y1, P1, L1, SexeM), InscRow(I1, E1, Y1, P1, Null, SexeM)}

\* Longest file with gaps: long enough for a dropped row on a commit
\* boundary and a full batch on either side of it.
MaxSparseRows == MaxInscRows + 1

BaseInst == Sheet({}, <<InstRow(U1, N1)>>)
BaseMeta == Sheet({}, <<MetaRow(U1, P1)>>)
BaseInsc == Sheet({}, <<InscRow(I1, E1, Y1, P1, L1, SexeM)>>)

\* Sheets that lack a column: one the metadata loader cleans, one only the
\* Program stage selects; one the enrollment loader converts, one the
\* AcademicYear stage selects, and one only the Enrollment stage requires.
MetaLacking == {{"id_parcours"}, {"label_parcours"}}

InscLacking == {{"naissance_date"}, {"annee_universitaire"}, {"niveau"}}

\* What a year cell can hold besides a whole number: nothing, a number with
\* a fraction, a text of digits, a text that is no number.
YearCells == {Absent, Number(2020, 5), Text(<<" ", "2", "0", "2", "0">>), Text(<<"x">>)}

\* The inputs of a run: any metadata with the baseline enrollments (among
\* them a metadata row whose id_parcours is over its column's width, after
\* a good row or alone, and the baseline sheet without one of its columns),
\* or the baseline metadata with any enrollments, with an enrollment file
\* with gaps, or with the baseline sheet without one of its columns.
Inputs ==
    {[inst |-> a, meta |-> b, insc |-> BaseInsc] :
        a \in FilesOf(InstRows, MaxMetaRows), b \in FilesOf(MetaRows, MaxMetaRows)}
    \cup {[inst |-> BaseInst, meta |-> Sheet({}, r), insc |-> BaseInsc] :
        r \in {<<MetaRow(U1, ParcoursTooLong)>>,
               <<MetaRow(U1, P1), MetaRow(U1, ParcoursTooLong)>>}}
    \cup {[inst |-> BaseInst, meta |-> Sheet(m, BaseMeta.rows), insc |-> BaseInsc] :
        m \in MetaLacking}
    \cup {[inst |-> BaseInst,
           meta |-> Sheet({}, <<[MetaRow(U1, P1) EXCEPT !.date_creation = y]>>),
           insc |-> BaseInsc] :
        y \in YearCells}
    \cup {[inst |-> BaseInst, meta |-> BaseMeta, insc |-> c] :
        c \in FilesOf(InscRows, MaxInscRows)
              \cup FilesOf(SparseRows, MaxSparseRows)
              \cup {Sheet({}, <<InscRow(I1, E1, AnneeTooLong, P1, L1, SexeM)>>)}
              \cup {Sheet(m, BaseInsc.rows) : m \in InscLacking}
              \cup {Sheet({}, <<[InscRow(I1, E1, Y1, P1, L1, SexeM)
                                    EXCEPT !.bacc_annee = y],
                                InscRow(I3, E3, Y1, P1, L1, SexeM)>>) :
                        y \in YearCells}}

(***************************************************************************)
(* State.                                                                  *)
(***************************************************************************)
VARIABLES
    files,      \* the three source files of this installation
    setupOk,    \* whether the engines and create_all succeed
    db,         \* committed storage: table -> (primary key -> row)
    news,       \* the session's pending objects, in the order added
    dirty,      \* the session's modified persistent rows
    sessions,   \* number of sessions open
    pc,         \* the driver's position
    frame,      \* the data frame the running stage iterates over
    i,          \* position of the running stage's row loop, from 1
    run,        \* 1 in the first run of main.py, 2 in the second
    instOk,     \* what _import_institutions returned
    metaErr,    \* the error import_metadata_to_db caught at its commit
    raised,     \* an exception is propagating out of the enrollment phase
    errs,       \* the stages' error counters
    log,        \* import_errors.log
    merged,     \* table -> number of session.merge calls of this run
    dbPrev      \* committed storage when this run started

vars == <<files, setupOk, db, news, dirty, sessions, pc, frame, i, run, instOk, raised,
          errs, log, merged, dbPrev, metaErr>>

NoErrors == [etudiant |-> 0, fk |-> 0, uq |-> 0, data |-> 0, other |-> 0]

NoMerges == [t \in Tables |-> 0]

Init ==
    /\ files \in Inputs
    /\ setupOk \in BOOLEAN
    /\ db = EmptyDb
    /\ news = <<>>
    /\ dirty = {}
    /\ sessions = 0
    /\ pc = "start"
    /\ frame = <<>>
    /\ i = 1
    /\ run = 1
    /\ instOk = FALSE
    /\ metaErr = NoError
    /\ raised = FALSE
    /\ errs = NoErrors
    /\ log = <<>>
    /\ merged = NoMerges
    /\ dbPrev = EmptyDb

(***************************************************************************)
(* The frames each stage prepares.                                         *)
(***************************************************************************)
df_inst_clean ==
    dropna(drop_duplicates(CleanKeys(read_excel(files.inst.rows), {"institution_id"}),
                           {"institution_id"}),
           {"institution_id"})

df_metadata ==
    CleanKeys(read_excel(files.meta.rows),
              {"institution_id", "composante", "domaine", "id_mention", "id_parcours"})

df_composantes == dropna(drop_duplicates(df_metadata, {"composante"}), {"composante"})

df_domaines == dropna(drop_duplicates(df_metadata, {"domaine"}), {"domaine"})

df_mentions_source ==
    dropna(drop_duplicates(df_metadata, {"id_mention"}), {"id_mention"})

df_parcours ==
    dropna(drop_duplicates(df_metadata, {"id_parcours"}), {"id_parcours", "id_mention"})

df_insc_loaded == CleanKeys(read_excel(files.insc.rows), {"id_parcours"})

annees ==
    dropna(drop_duplicates(df_insc_loaded, {"annee_universitaire"}),
           {"annee_universitaire"})

df_etudiants ==
    dropna(drop_duplicates(df_insc_loaded, {"code_etudiant"}), {"code_etudiant"})

cles_requises ==
    {"code_inscription", "code_etudiant", "annee_universitaire", "id_parcours", "niveau"}

df_inscriptions == dropna(df_insc_loaded, cles_requises)

\* The columns the loaders and the stages take from their sheet by name,
\* outside the try block of any row: a column the sheet lacks is a KeyError
\* there.
InstColumns == {"institution_id", "institution_nom", "institution_type"}

MetaKeyColumns == {"institution_id", "composante", "domaine", "id_mention", "id_parcours"}

InscLoaderColumns == {"naissance_date", "cin_date"}

StageColumns(stage) ==
    CASE stage = "composantes" -> {"composante", "label_composante", "institution_id"}
      [] stage = "domaines" -> {"domaine", "label_domaine"}
      [] stage = "mentions" ->
            {"mention", "label_mention", "id_mention", "composante", "domaine"}
      [] stage = "parcours" ->
            {"id_parcours", "parcours", "label_parcours", "id_mention", "date_creation",
             "date_fin"}
      [] stage = "annees" -> {"annee_universitaire"}
      [] stage = "etudiants" -> {"code_etudiant"}
      [] stage = "inscriptions" -> cles_requises

Lacks(file, cols) == files[file].missing \cap cols # {}

KeyError == [cls |-> "KeyError", text |-> "column not in index", width |-> 0]

ValueError ==
    [cls |-> "ValueError", text |-> "invalid literal for int() with base 10",
     width |-> 0]

\* _import_institutions fails before its first merge: the file cannot be
\* read, its key column is not there, or a column its first row needs is
\* not there.
InstitutionsFail ==
    \/ ~files.inst.readable
    \/ Lacks("inst", {"institution_id"})
    \/ Lacks("inst", InstColumns) /\ df_inst_clean # <<>>

\* _load_and_clean_metadata and _load_and_clean_inscriptions return a frame.
MetadataLoads == files.meta.readable /\ ~Lacks("meta", MetaKeyColumns)

InscriptionsLoad == files.insc.readable /\ ~Lacks("insc", InscLoaderColumns)

\* A sheet that was read and has all its columns.
Complete(file) == files[file].readable /\ files[file].missing = {}

\* The frame a stage iterates over, prepared when the stage is entered.
FrameOf(stage) ==
    CASE stage = "institutions" -> df_inst_clean
      [] stage = "composantes" -> df_composantes
      [] stage = "domaines" -> df_domaines
      [] stage = "mentions" -> df_mentions_source
      [] stage = "parcours" -> df_parcours
      [] stage = "annees" -> annees
      [] stage = "etudiants" -> df_etudiants
      [] stage = "inscriptions" -> df_inscriptions
      [] OTHER -> <<>>

(***************************************************************************)
(* The entity each stage builds from a row.                                *)
(***************************************************************************)
InstitutionOf(row) ==
    [tbl |-> "institutions",
     v |-> [id_institution |-> row.c.institution_id,
            nom |-> safe_string(row.c.institution_nom),
            type_institution |-> safe_string(row.c.institution_type)]]

MutComposanteWithoutInstitution(row) ==
    [tbl |-> "composantes",
     v |-> [code |-> row.c.composante,
            label |-> safe_string(row.c.label_composante),
            id_institution |-> Null]]

ComposanteOf(row) ==
    [tbl |-> "composantes",
     v |-> [code |-> row.c.composante,
            label |-> safe_string(row.c.label_composante),
            id_institution |-> row.c.institution_id]]

DomaineOf(row) ==
    [tbl |-> "domaines",
     v |-> [code |-> row.c.domaine, label |-> safe_string(row.c.label_domaine)]]

MentionOf(row) ==
    [tbl |-> "mentions",
     v |-> [id_mention |-> row.c.id_mention,
            code_mention |-> safe_string(row.c.mention),
            label |-> safe_string(row.c.label_mention),
            composante_code |-> row.c.composante,
            domaine_code |-> row.c.domaine]]

ParcoursOf(row) ==
    [tbl |-> "parcours",
     v |-> [id_parcours |-> row.c.id_parcours,
            code_parcours |-> safe_string(row.c.parcours),
            label |-> safe_string(row.c.label_parcours),
            mention_id |-> row.c.id_mention,
            date_creation |-> IntOrNone(row.c.date_creation)]]

AnneeOf(row) ==
    [tbl |-> "annees_universitaires",
     v |-> [annee |-> safe_string(row.c.annee_universitaire)]]

EtudiantOf(row) ==
    [tbl |-> "etudiants",
     v |-> [code_etudiant |-> safe_string(row.c.code_etudiant),
            nom |-> safe_string(row.c.nom),
            sexe |-> safe_string(row.c.sexe),
            bacc_annee |-> IntOrNone(row.c.bacc_annee)]]

InscriptionOf(row) ==
    [tbl |-> "inscriptions",
     v |-> [code_inscription |-> safe_string(row.c.code_inscription),
            code_etudiant |-> safe_string(row.c.code_etudiant),
            annee_universitaire |-> safe_string(row.c.annee_universitaire),
            id_parcours |-> row.c.id_parcours,
            niveau |-> safe_string(row.c.niveau),
            formation |-> safe_string(row.c.formation)]]

(***************************************************************************)
(* The order of the stages: import_metadata_to_db runs Institution,        *)
(* OrganizationalUnit, Domain, ProgramFamily, Program;                     *)
(* import_inscriptions_to_db runs AcademicYear, Student, Enrollment.       *)
(***************************************************************************)
MutEnrollmentBeforeStudent(stage) ==
    CASE stage = "institutions" -> "composantes"
      [] stage = "composantes" -> "domaines"
      [] stage = "domaines" -> "mentions"
      [] stage = "mentions" -> "parcours"
      [] stage = "parcours" -> "meta_close"
      [] stage = "annees" -> "inscriptions"
      [] stage = "inscriptions" -> "etudiants"
      [] stage = "etudiants" -> "insc_close"

StageAfter(stage) ==
    CASE stage = "institutions" -> "composantes"
      [] stage = "composantes" -> "domaines"
      [] stage = "domaines" -> "mentions"
      [] stage = "mentions" -> "parcours"
      [] stage = "parcours" -> "meta_close"
      [] stage = "annees" -> "etudiants"
      [] stage = "etudiants" -> "inscriptions"
      [] stage = "inscriptions" -> "insc_close"

(***************************************************************************)
(* Session steps shared by the stages.                                     *)
(***************************************************************************)
\* session.merge(e)
Merge(e) ==
    /\ news' = MergeNews(db, news, e)
    /\ dirty' = MergeDirty(db, dirty, e)
    /\ merged' = [merged EXCEPT ![e.tbl] = @ + 1]

\* session.rollback(), and what a successful commit leaves pending.
Rollback ==
    /\ news' = <<>>
    /\ dirty' = {}

\* An exception raised inside a stage of the metadata group: the except
\* clause of import_metadata_to_db rolls back and prints it.
GroupRaises(err) ==
    /\ Rollback
    /\ metaErr' = err
    /\ pc' = "meta_close"
    /\ frame' = <<>>
    /\ i' = 1
    /\ UNCHANGED merged

MutRaiseSkipsClose ==
    /\ raised' = TRUE
    /\ pc' = "crashed"
    /\ frame' = <<>>
    /\ i' = 1
    /\ UNCHANGED <<db, news, dirty, merged>>

\* An exception raised inside a stage of the enrollment phase outside the
\* try block of a row: import_inscriptions_to_db has no except clause.
PhaseRaises ==
    /\ raised' = TRUE
    /\ pc' = "insc_close"
    /\ frame' = <<>>
    /\ i' = 1
    /\ UNCHANGED <<db, news, dirty, merged>>

(***************************************************************************)
(* main.py, step 1: database_setup.init_db.                                *)
(***************************************************************************)
init_db ==
    /\ pc = "start"
    /\ pc' = IF setupOk THEN "meta_open" ELSE "exit"
    /\ UNCHANGED <<frame, files, setupOk, db, news, dirty, sessions, i, run, instOk,
                   raised, errs, log, merged, dbPrev>>
    /\ UNCHANGED metaErr

(***************************************************************************)
(* import_metadata_to_db and its stages.                                   *)
(***************************************************************************)
\* session = database_setup.get_session(), then _import_institutions up to
\* its row loop: an unreadable file is caught, rolled back and reported as
\* False, on which the orchestrator returns.
import_metadata_open ==
    /\ pc = "meta_open"
    /\ sessions' = sessions + 1
    /\ instOk' = FALSE
    /\ i' = 1
    /\ pc' = IF InstitutionsFail THEN "meta_close" ELSE "institutions"
    /\ frame' = FrameOf(pc')
    /\ UNCHANGED <<files, setupOk, db, news, dirty, run, raised, errs, log,
                   merged, dbPrev>>
    /\ UNCHANGED metaErr

\* if not _import_institutions(session): return
MutInstitutionsAlwaysTrue(r) == StageAfter("institutions")

AfterInstitutions(r) ==
    IF r.err = NoError THEN StageAfter("institutions") ELSE "meta_close"

\* _import_institutions: one merge per row, then the stage's own commit.
import_institutions ==
    /\ pc = "institutions"
    /\ IF i <= Len(frame)
       THEN /\ Merge(InstitutionOf(frame[i]))
            /\ i' = i + 1
            /\ UNCHANGED <<db, pc, frame, instOk>>
       ELSE \E r \in Commit(db, news, dirty) :
            /\ db' = r.db
            /\ Rollback
            /\ instOk' = (r.err = NoError)
            /\ pc' = AfterInstitutions(r)
            /\ frame' = FrameOf(pc')
            /\ i' = 1
            /\ UNCHANGED merged
    /\ UNCHANGED <<files, setupOk, sessions, run, raised, errs, log, dbPrev>>
    /\ UNCHANGED metaErr

\* _load_and_clean_metadata, then _import_composantes.
import_composantes ==
    /\ pc = "composantes"
    /\ IF ~MetadataLoads
       THEN /\ pc' = "meta_close"
            /\ frame' = <<>>
            /\ UNCHANGED <<news, dirty, merged, i, metaErr>>
       ELSE IF Lacks("meta", StageColumns("composantes"))
       THEN GroupRaises(KeyError)
       ELSE IF i <= Len(frame)
       THEN /\ Merge(ComposanteOf(frame[i]))
            /\ i' = i + 1
            /\ UNCHANGED <<pc, frame, metaErr>>
       ELSE /\ pc' = StageAfter("composantes")
            /\ frame' = FrameOf(pc')
            /\ i' = 1
            /\ UNCHANGED <<news, dirty, merged, metaErr>>
    /\ UNCHANGED <<files, setupOk, db, sessions, run, instOk, raised, errs, log,
                   dbPrev>>

import_domaines ==
    /\ pc = "domaines"
    /\ IF Lacks("meta", StageColumns("domaines"))
       THEN GroupRaises(KeyError)
       ELSE IF i <= Len(frame)
       THEN /\ Merge(DomaineOf(frame[i]))
            /\ i' = i + 1
            /\ UNCHANGED <<pc, frame, metaErr>>
       ELSE /\ pc' = StageAfter("domaines")
            /\ frame' = FrameOf(pc')
            /\ i' = 1
            /\ UNCHANGED <<news, dirty, merged, metaErr>>
    /\ UNCHANGED <<files, setupOk, db, sessions, run, instOk, raised, errs, log,
                   dbPrev>>

import_mentions ==
    /\ pc = "mentions"
    /\ IF Lacks("meta", StageColumns("mentions"))
       THEN GroupRaises(KeyError)
       ELSE IF i <= Len(frame)
       THEN /\ Merge(MentionOf(frame[i]))
            /\ i' = i + 1
            /\ UNCHANGED <<pc, frame, metaErr>>
       ELSE /\ pc' = StageAfter("mentions")
            /\ frame' = FrameOf(pc')
            /\ i' = 1
            /\ UNCHANGED <<news, dirty, merged, metaErr>>
    /\ UNCHANGED <<files, setupOk, db, sessions, run, instOk, raised, errs, log,
                   dbPrev>>

\* _import_parcours, then the group's session.commit() of the orchestrator,
\* whose except clause rolls the group back.
import_parcours ==
    /\ pc = "parcours"
    /\ IF Lacks("meta", StageColumns("parcours"))
       THEN GroupRaises(KeyError) /\ UNCHANGED db
       ELSE IF i <= Len(frame) /\ IntOrNoneRaises(frame[i].c.date_creation)
       THEN GroupRaises(ValueError) /\ UNCHANGED db
       ELSE IF i <= Len(frame)
       THEN /\ Merge(ParcoursOf(frame[i]))
            /\ i' = i + 1
            /\ UNCHANGED <<db, pc, frame, metaErr>>
       ELSE \E r \in Commit(db, news, dirty) :
            /\ db' = r.db
            /\ metaErr' = r.err
            /\ Rollback
            /\ pc' = StageAfter("parcours")
            /\ frame' = FrameOf(pc')
            /\ i' = 1
            /\ UNCHANGED merged
    /\ UNCHANGED <<files, setupOk, sessions, run, instOk, raised, errs, log,
                   dbPrev>>

\* finally: session.close()
import_metadata_close ==
    /\ pc = "meta_close"
    /\ sessions' = sessions - 1
    /\ Rollback
    /\ pc' = "insc_load"
    /\ UNCHANGED <<frame, files, setupOk, db, i, run, instOk, raised, errs, log, merged,
                   dbPrev>>
    /\ UNCHANGED metaErr

(***************************************************************************)
(* import_inscriptions_to_db and its stages.                               *)
(***************************************************************************)
\* _load_and_clean_inscriptions; None makes the orchestrator return before
\* it opens a session.
import_inscriptions_open ==
    /\ pc = "insc_load"
    /\ IF InscriptionsLoad
       THEN /\ sessions' = sessions + 1
            /\ pc' = "annees"
            /\ frame' = FrameOf(pc')
       ELSE /\ pc' = "done"
            /\ UNCHANGED <<sessions, frame>>
    /\ i' = 1
    /\ UNCHANGED <<files, setupOk, db, news, dirty, run, instOk, raised, errs, log,
                   merged, dbPrev>>
    /\ UNCHANGED metaErr

\* _import_annees_universitaires: the commit is in no try block, so its
\* error leaves through the orchestrator's finally.
import_annees_universitaires ==
    /\ pc = "annees"
    /\ IF Lacks("insc", StageColumns("annees"))
       THEN PhaseRaises
       ELSE IF i <= Len(frame)
       THEN /\ Merge(AnneeOf(frame[i]))
            /\ i' = i + 1
            /\ UNCHANGED <<db, pc, frame, raised>>
       ELSE \E r \in Commit(db, news, dirty) :
            /\ db' = r.db
            /\ IF r.err = NoError
               THEN Rollback /\ pc' = StageAfter("annees") /\ UNCHANGED raised
               ELSE UNCHANGED <<news, dirty>> /\ pc' = "insc_close" /\ raised' = TRUE
            /\ frame' = FrameOf(pc')
            /\ i' = 1
            /\ UNCHANGED merged
    /\ UNCHANGED <<files, setupOk, sessions, run, instOk, errs, log, dbPrev>>
    /\ UNCHANGED metaErr

\* col_suspecte of _import_etudiants.
ColSuspecte(w) ==
    IF w = 50 THEN "VARCHAR(50) - (bacc_serie)"
    ELSE IF w = 100 THEN "VARCHAR(100) - (cin ou lieu)"
    ELSE IF w = 20 THEN "VARCHAR(20) - (sexe)"
    ELSE "Taille de VARCHAR inconnue"

\* e_msg = str(e.orig).lower(), as the parts of the message.  Whether the
\* text of a DataError names its class, StringDataRightTruncation, is up to
\* the database driver config.DATABASE_URL selects.
DriverMessages(err) ==
    IF err.cls = "DataError"
    THEN {<<"stringdatarighttruncation", err.text>>, <<err.text>>}
    ELSE {<<err.text>>}

\* part in e_msg
Contains(e_msg, part) == \E k \in 1..Len(e_msg) : e_msg[k] = part

EtudiantLogEntry(row, err, e_msg) ==
    IF Contains(e_msg, "stringdatarighttruncation")
    THEN [stage |-> "ETUDIANT", kind |-> "ERREUR TRONCATION",
          col |-> ColSuspecte(err.width), detail |-> e_msg,
          key |-> row.c.code_etudiant, idx |-> row.idx]
    ELSE [stage |-> "ETUDIANT", kind |-> "Erreur", col |-> "", detail |-> e_msg,
          key |-> row.c.code_etudiant, idx |-> row.idx]

\* _import_etudiants: merge and commit of one row inside one try block.
import_etudiants ==
    /\ pc = "etudiants"
    /\ IF Lacks("insc", StageColumns("etudiants"))
       THEN PhaseRaises /\ UNCHANGED <<errs, log>>
       ELSE IF i <= Len(frame)
       THEN LET row == frame[i]
                e == EtudiantOf(row)
            IN  /\ IF IntOrNoneRaises(row.c.bacc_annee)
                   THEN /\ Rollback
                        /\ errs' = [errs EXCEPT !.etudiant = @ + 1]
                        /\ log' = Append(log, EtudiantLogEntry(row, ValueError,
                                                               <<ValueError.text>>))
                        /\ UNCHANGED <<db, merged>>
                   ELSE
                   /\ merged' = [merged EXCEPT ![e.tbl] = @ + 1]
                   /\ \E r \in Commit(db, MergeNews(db, news, e), MergeDirty(db, dirty, e)) :
                     /\ db' = r.db
                     /\ Rollback
                     /\ IF r.err = NoError
                        THEN UNCHANGED <<errs, log>>
                        ELSE /\ errs' = [errs EXCEPT !.etudiant = @ + 1]
                             /\ \E e_msg \in DriverMessages(r.err) :
                                  log' = Append(log, EtudiantLogEntry(row, r.err, e_msg))
                /\ i' = i + 1
                /\ UNCHANGED <<pc, frame, raised>>
       ELSE /\ pc' = StageAfter("etudiants")
            /\ frame' = FrameOf(pc')
            /\ i' = 1
            /\ UNCHANGED <<db, news, dirty, errs, log, merged, raised>>
    /\ UNCHANGED <<files, setupOk, sessions, run, instOk, dbPrev>>
    /\ UNCHANGED metaErr

\* The except clauses of _import_inscriptions: the counter an error adds to.
Bucket(err) ==
    IF err.cls = "IntegrityError"
    THEN IF err.text = "violates foreign key constraint" THEN "fk"
         ELSE IF err.text = "violates unique constraint" THEN "uq"
         ELSE "other"
    ELSE IF err.cls = "DataError" THEN "data"
    ELSE "other"

InscriptionLogEntry(row, err) ==
    [stage |-> "INSCRIPTION",
     kind |-> IF err.cls = "IntegrityError" THEN "Integrite"
              ELSE IF err.cls = "DataError" THEN "Donnees" ELSE "Autre",
     detail |-> err.text,
     key |-> row.c.code_inscription, idx |-> row.idx]

\* if (index + 1) % 500 == 0: index is the row's label in the file.
CommitDue(row) == (row.idx + 1) % CommitEvery = 0

\* _import_inscriptions: the merge of one row and, when due, the commit, in
\* one try block; after the loop the final commit in its own try block.
import_inscriptions ==
    /\ pc = "inscriptions"
    /\ IF Lacks("insc", StageColumns("inscriptions"))
       THEN PhaseRaises /\ UNCHANGED <<errs, log>>
       ELSE IF i <= Len(frame)
       THEN LET row == frame[i]
                e == InscriptionOf(row)
            IN  /\ merged' = [merged EXCEPT ![e.tbl] = @ + 1]
                /\ IF CommitDue(row)
                   THEN \E r \in Commit(db, MergeNews(db, news, e),
                                        MergeDirty(db, dirty, e)) :
                        /\ db' = r.db
                        /\ Rollback
                        /\ IF r.err = NoError
                           THEN UNCHANGED <<errs, log>>
                           ELSE /\ errs' = [errs EXCEPT ![Bucket(r.err)] = @ + 1]
                                /\ log' = Append(log, InscriptionLogEntry(row, r.err))
                   ELSE /\ news' = MergeNews(db, news, e)
                        /\ dirty' = MergeDirty(db, dirty, e)
                        /\ UNCHANGED <<db, errs, log>>
                /\ i' = i + 1
                /\ UNCHANGED <<pc, frame, raised>>
       ELSE \E r \in Commit(db, news, dirty) :
            /\ db' = r.db
            /\ Rollback
            /\ pc' = StageAfter("inscriptions")
            /\ frame' = FrameOf(pc')
            /\ i' = 1
            /\ UNCHANGED <<errs, log, merged, raised>>
    /\ UNCHANGED <<files, setupOk, sessions, run, instOk, dbPrev>>
    /\ UNCHANGED metaErr

\* finally: session.close(); an exception that was propagating then ends
\* the process.
import_inscriptions_close ==
    /\ pc = "insc_close"
    /\ sessions' = sessions - 1
    /\ Rollback
    /\ pc' = IF raised THEN "crashed" ELSE "done"
    /\ UNCHANGED <<frame, files, setupOk, db, i, run, instOk, raised, errs, log, merged,
                   dbPrev>>
    /\ UNCHANGED metaErr

(***************************************************************************)
(* A second invocation of main.py on the same files.  The module-level     *)
(* logging.basicConfig(filemode='w') truncates the log.                    *)
(***************************************************************************)
main_again ==
    /\ pc \in {"done", "crashed"}
    /\ run = 1
    /\ run' = 2
    /\ pc' = "start"
    /\ frame' = <<>>
    /\ dbPrev' = db
    /\ i' = 1
    /\ instOk' = FALSE
    /\ raised' = FALSE
    /\ metaErr' = NoError
    /\ errs' = NoErrors
    /\ log' = <<>>
    /\ merged' = NoMerges
    /\ UNCHANGED <<files, setupOk, db, news, dirty, sessions>>

Next ==
    \/ init_db
    \/ import_metadata_open
    \/ import_institutions
    \/ import_composantes
    \/ import_domaines
    \/ import_mentions
    \/ import_parcours
    \/ import_metadata_close
    \/ import_inscriptions_open
    \/ import_annees_universitaires
    \/ import_etudiants
    \/ import_inscriptions
    \/ import_inscriptions_close
    \/ main_again

Spec == Init /\ [][Next]_vars

(***************************************************************************)
(* Properties.                                                             *)
(***************************************************************************)
Finished == pc \in {"done", "crashed", "exit"}

\* The entities the Student and Enrollment stages build, in loop order.
EtudiantEntities == [k \in 1..Len(df_etudiants) |-> EtudiantOf(df_etudiants[k])]

InscriptionEntities ==
    [k \in 1..Len(df_inscriptions) |-> InscriptionOf(df_inscriptions[k])]

Stored(e) == IsPersistent(db, e) /\ db[e.tbl][PkOf(e)] = e.v

DistinctKeys(ents) ==
    \A j, k \in 1..Len(ents) : j # k => PkOf(ents[j]) # PkOf(ents[k])

SameContext(a, b) ==
    \A col \in {"code_etudiant", "annee_universitaire", "id_parcours", "niveau"} :
        a.v[col] = b.v[col]

\* An enrollment row the storage engine accepts on its own: no value too
\* long, and its student, year and program committed.
ValidInscription(e) == ~HasTooLong(e) /\ ~HasNull(e) /\ ~ForeignKeyMissing(db, e)

EnrollmentStageOver == pc \in {"insc_close", "done"} /\ ~raised

\* C1: upserting two valid rows with the same primary key one after the
\* other leaves exactly one stored row with that key, holding the second
\* row's values.  Stated for the Student and Enrollment stages, the two
\* whose loops can meet a key twice in one run: when two consecutive rows
\* of the stage have the same key, every row of the stage is valid and no
\* later row has that key, the stage ends with the second row stored.
C1_UpsertTwiceKeepsSecond ==
    EnrollmentStageOver =>
        /\ \A k \in 1..(Len(EtudiantEntities) - 1) :
              LET a == EtudiantEntities[k]
                  b == EtudiantEntities[k + 1]
              IN  (/\ PkOf(a) = PkOf(b)
                   /\ \A j \in 1..Len(EtudiantEntities) :
                         /\ ~HasTooLong(EtudiantEntities[j])
                         /\ j > k + 1 => PkOf(EtudiantEntities[j]) # PkOf(b))
                  => Stored(b)
        /\ \A k \in 1..(Len(InscriptionEntities) - 1) :
              LET a == InscriptionEntities[k]
                  b == InscriptionEntities[k + 1]
              IN  (/\ PkOf(a) = PkOf(b)
                   /\ \A j \in 1..Len(InscriptionEntities) :
                         /\ ValidInscription(InscriptionEntities[j])
                         /\ j > k + 1 => PkOf(InscriptionEntities[j]) # PkOf(b)
                         /\ \A h \in 1..Len(InscriptionEntities) :
                               SameContext(InscriptionEntities[j], InscriptionEntities[h])
                               => PkOf(InscriptionEntities[j]) = PkOf(InscriptionEntities[h]))
                  => Stored(b)

\* C2: in the Student stage, when the N deduplicated rows have N different
\* student codes and exactly one of them has an over-long field, the stage
\* ends with exactly the N-1 other students committed (N-1 rows in all on a
\* database that held no student), one error counted, one log line, which
\* names the failing row and carries the engine's value-too-long error, and
\* all N rows processed.
TooLongAmong(ents) == {k \in 1..Len(ents) : HasTooLong(ents[k])}

BadEtudiants == TooLongAmong(EtudiantEntities)

OneBadEtudiant == DistinctKeys(EtudiantEntities) /\ Cardinality(BadEtudiants) = 1

IsEtudiantEntry(entry) == entry.stage = "ETUDIANT"

\* The Student stage has just ended: the run enters the Enrollment stage.
StudentStageOver == pc = "inscriptions" /\ i = 1 /\ ~raised

C2_OneBadStudentIsolated ==
    StudentStageOver =>
        LET df == df_etudiants
            ents == [k \in 1..Len(df) |-> EtudiantOf(df[k])]
            bads == TooLongAmong(ents)
            N == Len(ents)
            lines == SelectSeq(log, IsEtudiantEntry)
        IN  (DistinctKeys(ents) /\ Cardinality(bads) = 1) =>
                LET bad == CHOOSE k \in bads : TRUE
                IN  /\ \A k \in 1..N : k # bad => Stored(ents[k])
                    /\ ~IsPersistent(db, ents[bad])
                    /\ Cardinality(DOMAIN db.etudiants) = N - 1
                    /\ errs.etudiant = 1
                    /\ Len(lines) = 1
                    /\ Contains(lines[1].detail, Truncation(0).text)
                    /\ lines[1].key = df[bad].c.code_etudiant
                    /\ lines[1].idx = df[bad].idx
                    /\ merged.etudiants = N

\* A run in which the failing row is the second of three student rows.
C2_Witness ==
    /\ StudentStageOver
    /\ OneBadEtudiant
    /\ Len(EtudiantEntities) = 3
    /\ BadEtudiants = {2}
    /\ Cardinality(DOMAIN db.etudiants) = 2

\* The enrollment rows with a value too long or a missing student, year or
\* program.
BadInscriptions ==
    {k \in 1..Len(InscriptionEntities) : ~ValidInscription(InscriptionEntities[k])}

DistinctContexts(ents) ==
    \A j, k \in 1..Len(ents) : j # k => ~SameContext(ents[j], ents[k])

FirstRun == run = 1

\* C3: in the Enrollment stage a failing row rolls back only its own
\* change: when exactly one of the N rows is malformed and the others are
\* valid rows with different codes and contexts, the stage ends with
\* exactly the N-1 valid rows committed.
C3_OnlyFailingRowLost ==
    (/\ EnrollmentStageOver
     /\ pc = "done"
     /\ DistinctKeys(InscriptionEntities)
     /\ DistinctContexts(InscriptionEntities)
     /\ Cardinality(BadInscriptions) = 1)
    => /\ \A k \in 1..Len(InscriptionEntities) :
             k \notin BadInscriptions => Stored(InscriptionEntities[k])
       /\ Cardinality(DOMAIN db.inscriptions) = Len(InscriptionEntities) - 1

\* C4: an Enrollment row whose Program is not in storage is never stored
\* and is counted in the foreign-key bucket, whatever its position.
MissingProgram == {k \in 1..Len(InscriptionEntities) :
                      InscriptionEntities[k].v.id_parcours \notin DOMAIN db.parcours}

C4_MissingProgramCounted ==
    (pc = "done" /\ Complete("insc")) =>
        /\ \A k \in MissingProgram : ~Stored(InscriptionEntities[k])
        /\ MissingProgram # {} => errs.fk >= 1

\* C5: of two Enrollment rows with different codes and the same (student,
\* year, program, level) the first is stored and the second is rejected and
\* counted as a uniqueness violation; committed storage never holds two
\* enrollments with the same context.
NoDuplicateContext ==
    \A j, k \in DOMAIN db.inscriptions :
        j # k => \E col \in {"code_etudiant", "annee_universitaire", "id_parcours",
                             "niveau"} :
                    db.inscriptions[j][col] # db.inscriptions[k][col]

C5_DuplicateContextRejected ==
    /\ NoDuplicateContext
    /\ (/\ pc = "done"
        /\ Len(InscriptionEntities) = 2
        /\ BadInscriptions = {}
        /\ PkOf(InscriptionEntities[1]) # PkOf(InscriptionEntities[2])
        /\ SameContext(InscriptionEntities[1], InscriptionEntities[2]))
       => /\ Stored(InscriptionEntities[1])
          /\ ~IsPersistent(db, InscriptionEntities[2])
          /\ errs.uq = 1

\* C6: when a source table holds several rows with the same natural key
\* only the first is upserted and the later ones have no effect on storage.
\* Stated for Student, keyed by the cleaned student_code, and Enrollment,
\* keyed by enrollment_code: when every row of the stage is valid, a key
\* stored at the end of the run holds the values of its first row.
FirstWith(ents, key) == CHOOSE k \in 1..Len(ents) :
    /\ PkOf(ents[k]) = key
    /\ \A j \in 1..(k - 1) : PkOf(ents[j]) # key

AllEtudiantEntities ==
    LET df == dropna(df_insc_loaded, {"code_etudiant"})
    IN  [k \in 1..Len(df) |-> EtudiantOf(df[k])]

C6_FirstOccurrenceWins ==
    (pc = "done" /\ Complete("insc") /\ FirstRun) =>
        /\ (\A k \in 1..Len(AllEtudiantEntities) : ~HasTooLong(AllEtudiantEntities[k]))
           => \A key \in DOMAIN db.etudiants :
                 db.etudiants[key] = AllEtudiantEntities[FirstWith(AllEtudiantEntities, key)].v
        /\ (BadInscriptions = {})
           => \A key \in DOMAIN db.inscriptions :
                 db.inscriptions[key]
                    = InscriptionEntities[FirstWith(InscriptionEntities, key)].v

\* C7: in every committed state of storage every non-null foreign key
\* refers to a committed row.
C7_ForeignKeysResolved ==
    \A t \in Tables : \A key \in DOMAIN db[t] : \A f \in Schema[t].fk :
        db[t][key][f.col] # Null => db[t][key][f.col] \in DOMAIN db[f.ref]

\* Every table with a foreign key holds a row, and an enrollment whose
\* program is missing was turned away.
C7_Witness ==
    /\ pc = "done"
    /\ \A t \in Tables : Schema[t].fk # {} => DOMAIN db[t] # {}
    /\ MissingProgram # {}

\* C8: a second run of the whole pipeline on the same files leaves
\* committed storage exactly as the first run left it.
C8_SecondRunChangesNothing ==
    (run = 2 /\ Finished) => db = dbPrev

\* C9: a row-level failure in any stage never leaves the stage's row loop
\* and never ends the process: the driver always runs to its end.
C9_RowFailureContained == pc # "crashed"

\* C10: if the Institution stage fails, its pending changes are rolled back
\* and no upsert of stages 2-5 is attempted in that run.
InstitutionStageFailed ==
    pc \notin {"start", "exit", "meta_open", "institutions"} /\ ~instOk

C10_InstitutionFailureAbortsMetadata ==
    InstitutionStageFailed =>
        /\ \A t \in {"composantes", "domaines", "mentions", "parcours"} : merged[t] = 0
        /\ db.institutions = dbPrev.institutions
        /\ pc = "meta_close" => (news = <<>> /\ dirty = {})

\* The Institution stage failed at its commit, with its rows merged, and
\* the metadata file had rows for the later stages.
C10_Witness ==
    /\ InstitutionStageFailed
    /\ pc = "meta_close"
    /\ merged.institutions = 2
    /\ Complete("meta")
    /\ Len(df_parcours) > 0

\* The metadata phase of this run is over, and it ran its stages 2-5.
MetadataPhaseOver ==
    pc \in {"insc_load", "annees", "etudiants", "inscriptions", "insc_close", "done",
            "crashed"}

GroupRan == MetadataPhaseOver /\ instOk /\ Complete("meta")

\* The metadata phase has just ended, and it ran its stages 2-5.
GroupDone == pc = "insc_load" /\ instOk /\ Complete("meta")

\* C11: when the Institution stage succeeded, each of the stages 2-5 runs
\* over all its rows, and the rows of the Domain stage, which depend on no
\* other stage, are committed at the end of the phase whatever happened to
\* the rows of the other stages of the group.
C11_GroupContinuesBestEffort ==
    GroupRan =>
        /\ merged.composantes = Len(df_composantes)
        /\ merged.domaines = Len(df_domaines)
        /\ merged.mentions = Len(df_mentions_source)
        /\ merged.parcours = Len(df_parcours)
        /\ \A k \in 1..Len(df_domaines) : Stored(DomaineOf(df_domaines[k]))

\* The enrollment rows whose student is not in storage.
MissingStudent ==
    {k \in 1..Len(InscriptionEntities) :
        InscriptionEntities[k].v.code_etudiant \notin DOMAIN db.etudiants}

\* C12: failures of student rows do not keep the Enrollment stage from
\* running: when the run ends, the Enrollment stage has gone over all its
\* rows, an enrollment row whose student was not stored is not stored
\* either, and such rows are counted in the foreign-key bucket.
C12_MissingStudentRowsCounted ==
    (pc = "done" /\ Complete("insc")) =>
        /\ merged.inscriptions = Len(df_inscriptions)
        /\ \A k \in MissingStudent : ~Stored(InscriptionEntities[k])
        /\ MissingStudent # {} => errs.fk >= 1

\* C13: at the end of the metadata phase a unit whose institution is
\* committed meets no foreign-key violation, and when the group's commit
\* met no other error it is committed with its reference equal to that
\* institution; a unit whose institution is not in storage is not stored,
\* and the group's commit fails with a foreign-key violation.
C13_UnitNeedsItsInstitution ==
    GroupDone =>
        LET df == df_composantes IN
        \A k \in 1..Len(df) :
            LET row == df[k].c IN
            IF row.institution_id \in DOMAIN db.institutions
            THEN /\ metaErr # ForeignKeyViolation
                 /\ metaErr = NoError =>
                        /\ row.composante \in DOMAIN db.composantes
                        /\ db.composantes[row.composante].id_institution
                               = row.institution_id
            ELSE /\ row.composante \notin DOMAIN db.composantes
                 /\ metaErr = ForeignKeyViolation

\* Institution U1 was imported and unit F1 of institution U1 after it.
C13_WitnessResolved ==
    /\ GroupDone
    /\ F1 \in DOMAIN db.composantes
    /\ db.composantes[F1].id_institution = U1
    /\ U1 \in DOMAIN db.institutions

\* Unit F1 of institution U2 was upserted in a run that imported
\* institution U1 only.
C13_Witness ==
    /\ GroupDone
    /\ merged.composantes = 1
    /\ df_composantes[1].c.institution_id = U2
    /\ DOMAIN db.institutions = {U1}
    /\ metaErr = ForeignKeyViolation
    /\ F1 \notin DOMAIN db.composantes

\* The upserts merged into the session and not yet committed.
Pending == Len(news) + Cardinality(dirty)

\* C14: in the Enrollment stage fewer than a full batch of upserts is
\* pending whenever the loop is about to merge another row, so that never
\* more than one batch (500 rows in the source, CommitEvery here) is
\* pending or lost to one rollback, whatever rows were dropped before the
\* loop.
C14_PendingBounded ==
    (pc = "inscriptions" /\ i <= Len(frame)) => Pending < CommitEvery

\* The entities stages 2-5 upsert in a run.
GroupEntities ==
    {ComposanteOf(df_composantes[k]) : k \in 1..Len(df_composantes)}
    \cup {DomaineOf(df_domaines[k]) : k \in 1..Len(df_domaines)}
    \cup {MentionOf(df_mentions_source[k]) : k \in 1..Len(df_mentions_source)}
    \cup {ParcoursOf(df_parcours[k]) : k \in 1..Len(df_parcours)}

GroupTables == {"composantes", "domaines", "mentions", "parcours"}

\* C15: at the end of a metadata phase whose stages 2-5 ran, either every
\* row they upserted is committed, or the four tables are as the run found
\* them; in both cases every row the Institution stage upserted is
\* committed.
C15_GroupIsOneTransaction ==
    GroupDone =>
        /\ \/ \A e \in GroupEntities : Stored(e)
           \/ \A t \in GroupTables : db[t] = dbPrev[t]
        /\ LET df == df_inst_clean
           IN  \A k \in 1..Len(df) : Stored(InstitutionOf(df[k]))

\* The commit of the group failed on its last table, after the rows of the
\* unit, the domain and the mention were sent to the engine: the unit's
\* institution is stored, the program's key is over its width, and none of
\* the four tables has a row.
C15_Witness ==
    /\ GroupDone
    /\ metaErr = Truncation(Schema.parcours.width.id_parcours)
    /\ merged.composantes = 1
    /\ merged.domaines = 1
    /\ merged.mentions = 1
    /\ merged.parcours = 2
    /\ df_composantes[1].c.institution_id \in DOMAIN db.institutions
    /\ \A t \in GroupTables : db[t] = <<>>

IsInscriptionEntry(entry) == entry.stage = "INSCRIPTION"

\* C16: every failure the Enrollment stage logs names the row that caused
\* it: in a first run over rows with different codes and contexts, the key
\* and the row index of every enrollment line of the error log are those of
\* a row the storage engine does not accept on its own.
C16_FailureNamesItsRow ==
    (/\ pc = "done"
     /\ FirstRun
     /\ DistinctKeys(InscriptionEntities)
     /\ DistinctContexts(InscriptionEntities))
    => LET df == df_inscriptions IN
       \A n \in 1..Len(log) :
           IsInscriptionEntry(log[n]) =>
               \E k \in 1..Len(df) :
                   /\ df[k].idx = log[n].idx
                   /\ df[k].c.code_inscription = log[n].key
                   /\ ~ValidInscription(InscriptionOf(df[k]))

\* The cell of column col the file holds for a row of a prepared frame.
SourceCell(file, row, col) == files[file].rows[row.idx + 1][col]

KeyCellsPresent(file, df, cols) ==
    \A k \in 1..Len(df) : \A col \in cols : SourceCell(file, df[k], col) # Null

\* C17: no upsert is attempted with a key derived from a null cell: when
\* the metadata stages have issued their upserts, every row they went over
\* has a value in the file for the stage's key column, and when the
\* Enrollment stage has, every row it went over has a value for each of its
\* five keys.
C17_NullKeyRowsDropped ==
    /\ GroupDone =>
           /\ KeyCellsPresent("inst", df_inst_clean, {"institution_id"})
           /\ KeyCellsPresent("meta", df_composantes, {"composante"})
           /\ KeyCellsPresent("meta", df_domaines, {"domaine"})
           /\ KeyCellsPresent("meta", df_mentions_source, {"id_mention"})
           /\ KeyCellsPresent("meta", df_parcours, {"id_parcours"})
    /\ (pc = "done" /\ Complete("insc")) =>
           KeyCellsPresent("insc", df_inscriptions, cles_requises)

\* C18: the unit's reference to its institution is optional: at the end of
\* the metadata phase a unit whose source row carries no institution
\* identifier, in a file whose other rows are good, is stored with a null
\* reference and the group's commit has not failed.
C18_UnitWithoutInstitutionStored ==
    GroupDone =>
        LET df == df_composantes IN
        \A k \in 1..Len(df) :
            (/\ SourceCell("meta", df[k], "institution_id") = Null
             /\ \A j \in 1..Len(files.meta.rows) :
                    files.meta.rows[j].id_parcours = P1)
            => /\ metaErr = NoError
               /\ df[k].c.composante \in DOMAIN db.composantes
               /\ db.composantes[df[k].c.composante].id_institution = Null

\* The stages in the order the claim gives them, and the table each one
\* upserts into.
FixedOrder ==
    <<"institutions", "composantes", "domaines", "mentions", "parcours", "annees",
      "etudiants", "inscriptions">>

TableOf(stage) == IF stage = "annees" THEN "annees_universitaires" ELSE stage

PendingEntities == {news[k] : k \in 1..Len(news)} \cup dirty

\* C19: the stages run in the fixed order.  In every step that issues an
\* upsert of a stage, the run is in that stage, ensure-schema has succeeded,
\* the step issues no upsert of another stage, and no upsert of a later
\* stage has been issued in this run; and when the step is an Enrollment
\* upsert, nothing of the AcademicYear and Student stages is left
\* uncommitted in the session.
C19_StagesInFixedOrder ==
    [][\A k \in 1..Len(FixedOrder) :
          LET t == TableOf(FixedOrder[k]) IN
          merged'[t] > merged[t] =>
              /\ pc = FixedOrder[k]
              /\ setupOk
              /\ \A j \in 1..Len(FixedOrder) :
                     /\ j # k => merged'[TableOf(FixedOrder[j])]
                                    = merged[TableOf(FixedOrder[j])]
                     /\ j > k => merged[TableOf(FixedOrder[j])] = 0
              /\ t = "inscriptions" =>
                     \A e \in PendingEntities : e.tbl = "inscriptions"]_vars

\* A run that went through all eight stages and issued upserts in each.
C19_Witness ==
    /\ pc = "done"
    /\ \A t \in Tables : merged[t] > 0
    /\ db.inscriptions # <<>>

\* C20: the pipeline never deletes.  In every step the committed primary
\* keys of every table are still committed after the step, and a step in
\* which a failure is caught and counted (its rollback) leaves committed
\* storage as it was.  The state of storage at an interruption is that of
\* the state the run is in, so this covers a run that stops at any point.
C20_CommittedKeysOnlyGrow ==
    [][/\ \A t \in Tables : DOMAIN db[t] \subseteq DOMAIN db'[t]
       /\ (run' = run /\ errs' # errs) => db' = db]_vars

\* The run is inside the Enrollment stage after the rollback of a batch:
\* the rows of the completed Student stage are committed.
C20_Witness ==
    /\ pc = "inscriptions"
    /\ i > 1
    /\ i <= Len(frame)
    /\ errs.fk + errs.uq > 0
    /\ db.etudiants # <<>>
    /\ db.parcours # <<>>

EnrollmentTables == {"annees_universitaires", "etudiants", "inscriptions"}

\* The metadata source failed to load: no upsert of stages 2-5 was issued
\* and the institutions of the run are committed.
MetadataLoadContained ==
    (pc = "insc_load" /\ instOk /\ ~Complete("meta")) =>
        /\ \A t \in GroupTables : merged[t] = 0
        /\ LET df == df_inst_clean
           IN  \A k \in 1..Len(df) : Stored(InstitutionOf(df[k]))

\* After a metadata source that failed to load, the enrollment phase runs
\* over all its rows.
EnrollmentRunsAfterMetadataLoadError ==
    (Finished /\ setupOk /\ ~Complete("meta") /\ Complete("insc")) =>
        /\ pc = "done"
        /\ merged.annees_universitaires = Len(annees)
        /\ merged.etudiants = Len(df_etudiants)
        /\ merged.inscriptions = Len(df_inscriptions)

\* The enrollment source failed to load: stages 6-8 issued no upsert, their
\* tables are as the run found them, and the process ended normally.
EnrollmentLoadContained ==
    (Finished /\ setupOk /\ ~Complete("insc")) =>
        /\ pc = "done"
        /\ \A t \in EnrollmentTables : merged[t] = 0 /\ db[t] = dbPrev[t]

\* C21: a source that cannot be read, or lacks a column the code takes
\* from it, aborts only the stages that read it: after such a metadata
\* source no upsert of stages 2-5 was issued, the institutions stay
\* committed and the enrollment phase runs; after such an enrollment source
\* stages 6-8 issue no upsert, storage is unchanged and the process ends
\* normally.
C21_LoadErrorAbortsOnlyItsStages ==
    /\ MetadataLoadContained
    /\ EnrollmentRunsAfterMetadataLoadError
    /\ EnrollmentLoadContained

\* The null-on-unparseable policy: nothing or a text that is no number
\* gives NULL, a number gives its whole part.
NullOnUnparseable(cell) ==
    IF cell.kind = "num" THEN IntVal(cell.whole)
    ELSE IF cell.kind = "str" /\ IsIntegerLiteral(cell.text)
    THEN IntVal(DecimalValue(Strip(cell.text), 0))
    ELSE NullInt

\* C22: the integer columns follow the null-on-unparseable policy and a
\* value that is no number fails neither its row nor its stage.  At the end
\* of the metadata phase no int() error was caught, and when the group
\* committed every program is stored with the creation year the policy
\* gives; at the end of a run whose student rows have different codes and
\* no over-long value, no student row failed and every student is stored
\* with the bacc_annee the policy gives.
C22_IntegerNullOnUnparseable ==
    /\ GroupDone =>
           /\ metaErr # ValueError
           /\ metaErr = NoError =>
                  LET df == df_parcours IN
                  \A k \in 1..Len(df) :
                      /\ df[k].c.id_parcours \in DOMAIN db.parcours
                      /\ db.parcours[df[k].c.id_parcours].date_creation
                             = NullOnUnparseable(df[k].c.date_creation)
    /\ (pc = "done" /\ Complete("insc")) =>
           LET df == df_etudiants
               ents == [k \in 1..Len(df) |-> EtudiantOf(df[k])]
           IN  (DistinctKeys(ents) /\ TooLongAmong(ents) = {}) =>
                   /\ errs.etudiant = 0
                   /\ \A k \in 1..Len(df) :
                          /\ PkOf(ents[k]) \in DOMAIN db.etudiants
                          /\ db.etudiants[PkOf(ents[k])].bacc_annee
                                 = NullOnUnparseable(df[k].c.bacc_annee)

\* The four counters of the Enrollment stage's summary.
BucketSum == errs.fk + errs.uq + errs.data + errs.other

\* C23: the error summary of the Enrollment stage accounts for every row.
\* At the end of a first run over rows with different codes, the number of
\* enrollment upserts issued equals the number of enrollments the stage
\* committed plus the sum of the four bucket counts.
C23_SummaryAccountsForEveryRow ==
    (/\ pc = "done"
     /\ Complete("insc")
     /\ FirstRun
     /\ DistinctKeys(InscriptionEntities))
    => merged.inscriptions = Cardinality(DOMAIN db.inscriptions) + BucketSum

\* The positions of a run inside a phase, between get_session() and the
\* finally clause's session.close().
InsidePhase ==
    pc \in {"institutions", "composantes", "domaines", "mentions", "parcours",
            "meta_close", "annees", "etudiants", "inscriptions", "insc_close"}

\* C24: every session a phase opens is closed before the phase returns, on
\* every path, and at most one session is open at any time: a session is
\* open exactly while the run is inside a phase, never more than one, and
\* outside the phases nothing is left pending.
C24_SessionsClosed ==
    /\ sessions \in {0, 1}
    /\ sessions = 1 <=> InsidePhase
    /\ ~InsidePhase => news = <<>> /\ dirty = {}

\* The enrollment phase was left by an exception raised after the Student
\* stage had run, and its session is closed.
C24_Witness ==
    /\ pc = "crashed"
    /\ raised
    /\ merged.etudiants > 0
    /\ sessions = 0

\* The metadata phase returned early after a failed Institution stage, and
\* its session is closed.
C24_WitnessEarlyReturn ==
    /\ pc = "insc_load"
    /\ ~instOk
    /\ merged.institutions > 0
    /\ sessions = 0

====
